---------------------------- MODULE Spec2Model ----------------------------
(***************************************************************************)
(* A model of the remote.it API wrapper: the request signer (auth.rs),     *)
(* the credentials and the credentials file (credentials.rs,               *)
(* credentials_loader.rs) and the client operations that send signed       *)
(* requests (api_blocking.rs, api_async.rs, file_upload.rs).               *)
(*                                                                         *)
(* Text is modelled by TLA+ strings, built with \o and read with Len and   *)
(* SubSeq.  Byte strings are sequences of numbers in 0..255.  The HMAC of  *)
(* the ring crate is modelled as an ideal MAC: its tag is the pair of the  *)
(* key as HMAC uses it and the signed message, so two tags are equal       *)
(* exactly when HMAC is given the same effective key and message.          *)
(***************************************************************************)
EXTENDS Integers, Sequences, FiniteSets, TLC

VARIABLES
    now,        \* the clock read by get_date
    sig_prev,   \* the build_auth_header call before the last one, or NoCall
    sig_last,   \* the last build_auth_header call (inputs and results), or NoCall
    built,      \* the result of the last Credentials::builder()...build()
    loaded,     \* how the last load_from_disk ended, or NotLoaded
    profiles,   \* CredentialProfiles.profiles of the loaded file
    taken,      \* the result of the last take_profile
    client,     \* R3Client.credentials, or NoClient
    wire,       \* the HTTP requests the last client operation sent, in order
    outcome,    \* what the last client operation returned to its caller
    calls       \* the concurrent client operations: where each is and its locals

vars == <<now, sig_prev, sig_last, built, loaded, profiles, taken, client, wire, outcome,
          calls>>

-----------------------------------------------------------------------------
(* Bounds of the model *)

MaxTime == 1
MaxCalls == 2

-----------------------------------------------------------------------------
(* Text helpers *)

Chr(s, i) == SubSeq(s, i, i)

UpperAlpha == "ABCDEFGHIJKLMNOPQRSTUVWXYZ"
LowerAlpha == "abcdefghijklmnopqrstuvwxyz"

\* the lower-case letter of every upper-case letter
LowerOf ==
    [u \in {Chr(UpperAlpha, i) : i \in 1..Len(UpperAlpha)} |->
        Chr(LowerAlpha, CHOOSE i \in 1..Len(UpperAlpha) : Chr(UpperAlpha, i) = u)]

\* char::to_lowercase on the characters of a method name (ASCII)
LowerChar(c) == IF c \in DOMAIN LowerOf THEN LowerOf[c] ELSE c

RECURSIVE to_lowercase(_)
to_lowercase(s) ==
    IF Len(s) = 0 THEN ""
    ELSE LowerChar(Chr(s, 1)) \o to_lowercase(SubSeq(s, 2, Len(s)))

\* s begins with the text p
StartsWith(s, p) == Len(s) >= Len(p) /\ SubSeq(s, 1, Len(p)) = p

\* the position of the first occurrence of the character c in s at or after i, or 0
RECURSIVE FindChar(_, _, _)
FindChar(s, c, i) ==
    IF i > Len(s) THEN 0
    ELSE IF Chr(s, i) = c THEN i
    ELSE FindChar(s, c, i + 1)

\* the lines of s: the pieces between newline characters
RECURSIVE Lines(_)
Lines(s) ==
    LET p == FindChar(s, "\n", 1)
    IN  IF p = 0 THEN <<s>>
        ELSE <<SubSeq(s, 1, p - 1)>> \o Lines(SubSeq(s, p + 1, Len(s)))

-----------------------------------------------------------------------------
(* Program constants: lib.rs *)

BASE_URL_other_host == "https://api.remoteit.com"

BASE_URL == "https://api.remote.it"
GRAPHQL_PATH == "/graphql/v1"
FILE_UPLOAD_PATH == "/graphql/v1/file/upload"

-----------------------------------------------------------------------------
(* auth.rs: the request signer *)

\* The key as HMAC uses it (RFC 2104): a key shorter than the hash block is
\* padded with zero bytes to the block length, so a key and the same key
\* followed by zero bytes are one HMAC key.  The canonical form drops the
\* trailing zero bytes.
RECURSIVE hmac_Key(_)
hmac_Key(key) ==
    IF Len(key) > 0 /\ key[Len(key)] = 0
    THEN hmac_Key(SubSeq(key, 1, Len(key) - 1))
    ELSE key

\* the length in bytes of a tag of ring's HMAC_SHA256
SHA256_OUTPUT_LEN == 32

\* ring::hmac::sign with HMAC_SHA256, as an ideal MAC
hmac_sign(key, message) ==
    [alg |-> "hmac-sha256", key |-> hmac_Key(key), data |-> message,
     len |-> SHA256_OUTPUT_LEN]

\* BASE64_STANDARD.encode of a tag: the text stands for the tag, has four
\* characters for every three bytes begun, the last of them padding
BASE64_STANDARD_encode(tag) ==
    [base64 |-> tag,
     chars |-> 4 * ((tag.len + 2) \div 3),
     padding |-> (3 - (tag.len % 3)) % 3]

create_signature_unkeyed(key, message) ==
    BASE64_STANDARD_encode(hmac_sign(<<>>, message))

\* the tag encoded without padding characters
create_signature_no_pad(key, message) ==
    [base64 |-> hmac_sign(key, message),
     chars |-> (4 * hmac_sign(key, message).len + 2) \div 3,
     padding |-> 0]

\* create_signature: the base64 text of the HMAC tag
create_signature(key, message) ==
    BASE64_STANDARD_encode(hmac_sign(key, message))

signature_params_raw_method(content_type, method, path, date) ==
    "(request-target): " \o method \o " " \o path
        \o "\nhost: api.remote.it\ndate: " \o date
        \o "\ncontent-type: " \o content_type

\* the local signature_params of build_auth_header: the string that is signed
signature_params(content_type, method, path, date) ==
    "(request-target): " \o to_lowercase(method) \o " " \o path
        \o "\nhost: api.remote.it\ndate: " \o date
        \o "\ncontent-type: " \o content_type

\* get_date: the clock, formatted "%a, %d %b %Y %H:%M:%S GMT"
get_date(t) == "Wed, 01 Jan 2025 12:00:0" \o ToString(t) \o " GMT"

build_auth_header_clock(key_id, key, content_type, method, path, date) ==
    <<"Signature keyId=\"" \o key_id
        \o "\",algorithm=\"hmac-sha256\",headers=\"(request-target) host date content-type\",signature=\"",
      create_signature(key, signature_params(content_type, method, path, get_date(now))),
      "\"">>

build_auth_header_signs_key_id(key_id, key, content_type, method, path, date) ==
    <<"Signature keyId=\"" \o key_id
        \o "\",algorithm=\"hmac-sha256\",headers=\"(request-target) host date content-type\",signature=\"",
      create_signature(key, "keyid: " \o key_id \o "\n"
                              \o signature_params(content_type, method, path, date)),
      "\"">>

build_auth_header_no_algorithm(key_id, key, content_type, method, path, date) ==
    <<"Signature keyId=\"" \o key_id
        \o "\",headers=\"(request-target) host date content-type\",signature=\"",
      create_signature(key, signature_params(content_type, method, path, date)),
      "\"">>

\* build_auth_header: the Authorization header value.  Its text is three
\* pieces: the text up to the signature, the signature, the closing quote.
build_auth_header(key_id, key, content_type, method, path, date) ==
    <<"Signature keyId=\"" \o key_id
        \o "\",algorithm=\"hmac-sha256\",headers=\"(request-target) host date content-type\",signature=\"",
      create_signature(key, signature_params(content_type, method, path, date)),
      "\"">>

\* the signature field of a header value, and the message and key under it
SignatureOf(header) == header[2]
SignedMessage(header) == header[2].base64.data
SignedKey(header) == header[2].base64.key


-----------------------------------------------------------------------------
(* The base64 crate's STANDARD engine: standard alphabet, canonical padding *)

B64Alphabet == "ABCDEFGHIJKLMNOPQRSTUVWXYZabcdefghijklmnopqrstuvwxyz0123456789+/"

\* the 6-bit value of every alphabet character
B64Index ==
    [a \in {Chr(B64Alphabet, i) : i \in 1..Len(B64Alphabet)} |->
        (CHOOSE i \in 1..Len(B64Alphabet) : Chr(B64Alphabet, i) = a) - 1]

IsB64Char(c) == c \in DOMAIN B64Index

\* the 6-bit value of an alphabet character
B64Value(c) == B64Index[c]

\* the number of = characters that end the text
RECURSIVE PadCount(_)
PadCount(s) ==
    IF Len(s) > 0 /\ Chr(s, Len(s)) = "=" THEN 1 + PadCount(SubSeq(s, 1, Len(s) - 1))
    ELSE 0

\* STANDARD.decode succeeds: whole quads, alphabet characters then at most
\* two = of padding, and no bits set beyond the last whole byte
IsValidBase64(s) ==
    LET pad  == PadCount(s)
        data == Len(s) - pad
    IN  /\ Len(s) % 4 = 0
        /\ pad <= 2
        /\ \A i \in 1..data : IsB64Char(Chr(s, i))
        /\ pad = 1 => B64Value(Chr(s, data)) % 4 = 0
        /\ pad = 2 => B64Value(Chr(s, data)) % 16 = 0

\* the bytes of the quads of a valid text whose padding has been removed
RECURSIVE B64Bytes(_)
B64Bytes(s) ==
    IF Len(s) < 2 THEN <<>>
    ELSE LET a == B64Value(Chr(s, 1))
             b == B64Value(Chr(s, 2))
         IN  IF Len(s) = 2 THEN <<a * 4 + b \div 16>>
             ELSE LET c == B64Value(Chr(s, 3))
                  IN  IF Len(s) = 3
                      THEN <<a * 4 + b \div 16, (b % 16) * 16 + c \div 4>>
                      ELSE <<a * 4 + b \div 16, (b % 16) * 16 + c \div 4,
                             (c % 4) * 64 + B64Value(Chr(s, 4))>>
                               \o B64Bytes(SubSeq(s, 5, Len(s)))

\* STANDARD.decode of a valid text
Base64Decode(s) == B64Bytes(SubSeq(s, 1, Len(s) - PadCount(s)))

-----------------------------------------------------------------------------
(* credentials.rs: Credentials *)

NoCredentials == [none |-> TRUE]

\* Credentials::builder()...build(): the derived builder stores the two
\* texts as they are given and cannot fail
Credentials_build(r3_access_key_id, r3_secret_access_key) ==
    [ok |-> TRUE,
     value |-> [r3_access_key_id |-> r3_access_key_id,
                r3_secret_access_key |-> r3_secret_access_key]]

\* credentials.key, as the client operations read it: the bytes that the
\* secret access key text encodes
Credentials_key(credentials) ==
    IF IsValidBase64(credentials.r3_secret_access_key)
    THEN Base64Decode(credentials.r3_secret_access_key)
    ELSE <<>>

-----------------------------------------------------------------------------
(* credentials_loader.rs: the credentials file and its profiles *)

NotLoaded == [loaded |-> FALSE]

\* the function f without the key k (HashMap::remove)
Without(f, k) == [x \in DOMAIN f \ {k} |-> f[x]]

\* a take_profile that empties the map
take_profile_drain(profs, profile_name) ==
    IF profile_name \notin DOMAIN profs
    THEN [profiles |-> profs, result |-> [ok |-> TRUE, some |-> FALSE]]
    ELSE [profiles |-> <<>>,
          result |-> [ok |-> TRUE, some |-> TRUE, value |-> profs[profile_name]]]

\* a take_profile that removes the profile only when its secret is valid
take_profile_keep_invalid(profs, profile_name) ==
    IF profile_name \notin DOMAIN profs
    THEN [profiles |-> profs, result |-> [ok |-> TRUE, some |-> FALSE]]
    ELSE [profiles |-> IF IsValidBase64(profs[profile_name].r3_secret_access_key)
                       THEN Without(profs, profile_name) ELSE profs,
          result |-> [ok |-> TRUE, some |-> TRUE, value |-> profs[profile_name]]]

\* a take_profile that looks the profile up and leaves it in place
take_profile_keep(profs, profile_name) ==
    IF profile_name \notin DOMAIN profs
    THEN [profiles |-> profs, result |-> [ok |-> TRUE, some |-> FALSE]]
    ELSE [profiles |-> profs,
          result |-> [ok |-> TRUE, some |-> TRUE, value |-> profs[profile_name]]]

\* a take_profile that answers an unknown name with empty credentials
take_profile_or_default(profs, profile_name) ==
    IF profile_name \notin DOMAIN profs
    THEN [profiles |-> profs,
          result |-> [ok |-> TRUE, some |-> TRUE,
                      value |-> [r3_access_key_id |-> "", r3_secret_access_key |-> ""]]]
    ELSE [profiles |-> Without(profs, profile_name),
          result |-> [ok |-> TRUE, some |-> TRUE, value |-> profs[profile_name]]]

\* CredentialProfiles::take_profile: the profiles left and the value returned
take_profile(profs, profile_name) ==
    IF profile_name \notin DOMAIN profs
    THEN [profiles |-> profs, result |-> [ok |-> TRUE, some |-> FALSE]]
    ELSE LET unverified_credentials == profs[profile_name]
             b == Credentials_build(unverified_credentials.r3_access_key_id,
                                    unverified_credentials.r3_secret_access_key)
         IN  [profiles |-> Without(profs, profile_name),
              result |-> IF b.ok THEN [ok |-> TRUE, some |-> TRUE, value |-> b.value]
                         ELSE [ok |-> FALSE, error |-> b.error]]

\* HashMap::len and HashMap::is_empty
len(profs) == Cardinality(DOMAIN profs)
is_empty(profs) == DOMAIN profs = {}

\* the sequences that list every element of S once, in some order
Orderings(S) ==
    {v \in [1..Cardinality(S) -> S] : \A i, j \in 1..Cardinality(S) : v[i] = v[j] => i = j}

available_profiles_repeated(profs) ==
    {v \o v : v \in Orderings(DOMAIN profs)}

\* available_profiles: the keys of the map collected into a Vec, in the
\* order the HashMap iterates them, which is any order: the Vecs the call
\* may return
available_profiles(profs) == Orderings(DOMAIN profs)


\* What the disk holds at the paths load_from_disk may be given: a file is
\* either no INI text or a set of profile sections.
HomeDir == "/home/user"
DefaultCredentialsPath == HomeDir \o "/.remoteit/credentials"

Section(id, secret) == [r3_access_key_id |-> id, r3_secret_access_key |-> secret]

CredentialFiles ==
    [p \in {DefaultCredentialsPath, "/etc/r3/two", "/etc/r3/empty", "/etc/r3/broken"} |->
        CASE p = DefaultCredentialsPath ->
                [ini |-> TRUE,
                 sections |-> [n \in {"default"} |-> Section("foo", "YmFy")]]
          [] p = "/etc/r3/two" ->
                [ini |-> TRUE,
                 sections |-> [n \in {"default", "other"} |->
                                 IF n = "default" THEN Section("foo", "bar")
                                 ELSE Section("baz", "YmFyAA==")]]
          [] p = "/etc/r3/empty" ->
                [ini |-> TRUE, sections |-> [n \in {} |-> Section("", "")]]
          [] OTHER -> [ini |-> FALSE]]

\* Option values: None is the empty sequence, Some(x) the sequence of x alone
None == <<>>
Some(x) == <<x>>

CustomPaths == {None, Some("/etc/r3/two"), Some("/etc/r3/empty"), Some("/etc/r3/broken"),
                Some("/etc/r3/missing")}
HomeDirs == {None, Some(HomeDir)}
ProfileNames == {"default", "other", "absent"}

\* a load_from_disk that keeps the section named default and drops the rest
load_from_disk_default_only(custom_credentials_path, home_dir) ==
    IF home_dir = None
    THEN [ok |-> FALSE, error |-> "HomeDirNotFound"]
    ELSE LET credentials_path ==
                 IF custom_credentials_path # None THEN custom_credentials_path[1]
                 ELSE home_dir[1] \o "/.remoteit/credentials"
         IN  IF credentials_path \notin DOMAIN CredentialFiles
                \/ ~CredentialFiles[credentials_path].ini
             THEN [ok |-> FALSE, error |-> "CredentialsParse"]
             ELSE [ok |-> TRUE,
                   profiles |-> [n \in DOMAIN CredentialFiles[credentials_path].sections
                                          \cap {"default"} |->
                                    CredentialFiles[credentials_path].sections[n]]]

\* Credentials::load_from_disk: the argument of unwrap_or is evaluated
\* before unwrap_or is called, so the home directory is looked up, and its
\* absence returned, whether or not a custom path is given
load_from_disk(custom_credentials_path, home_dir) ==
    IF home_dir = None
    THEN [ok |-> FALSE, error |-> "HomeDirNotFound"]
    ELSE LET credentials_path ==
                 IF custom_credentials_path # None THEN custom_credentials_path[1]
                 ELSE home_dir[1] \o "/.remoteit/credentials"
         IN  IF credentials_path \notin DOMAIN CredentialFiles
             THEN [ok |-> FALSE, error |-> "CredentialsParse"]
             ELSE IF ~CredentialFiles[credentials_path].ini
             THEN [ok |-> FALSE, error |-> "CredentialsParse"]
             ELSE [ok |-> TRUE, profiles |-> CredentialFiles[credentials_path].sections]

-----------------------------------------------------------------------------
(* lib.rs, api_blocking.rs, api_async.rs: the client and its GraphQL calls *)

NoClient == [none |-> TRUE]

R3Client_credentials_default(r3_client) ==
    [r3_access_key_id |-> "", r3_secret_access_key |-> ""]

\* R3Client::credentials(): a reference to the credentials the client holds
R3Client_credentials(r3_client) == r3_client

\* the path and the host of a URL of the form scheme://host/path
AfterScheme(url) == SubSeq(url, FindChar(url, "/", 1) + 2, Len(url))
HostOf(url) ==
    IF FindChar(AfterScheme(url), "/", 1) = 0 THEN AfterScheme(url)
    ELSE SubSeq(AfterScheme(url), 1, FindChar(AfterScheme(url), "/", 1) - 1)
PathOf(url) ==
    IF FindChar(AfterScheme(url), "/", 1) = 0 THEN ""
    ELSE SubSeq(AfterScheme(url), FindChar(AfterScheme(url), "/", 1), Len(AfterScheme(url)))

\* the value of the first header of a request that has the given name
HeaderValue(request, name) ==
    request.headers[CHOOSE i \in 1..Len(request.headers) :
                        /\ request.headers[i][1] = name
                        /\ \A j \in 1..(i - 1) : request.headers[j][1] # name][2]

send_remoteit_graphql_request_two_dates(credentials, query_body, t) ==
    LET auth_header == build_auth_header(credentials.r3_access_key_id,
                                         Credentials_key(credentials),
                                         "application/json", "POST", GRAPHQL_PATH,
                                         get_date(t))
    IN  [method |-> "POST",
         url |-> BASE_URL \o GRAPHQL_PATH,
         headers |-> << <<"Date", get_date(t + 1)>>,
                        <<"Content-Type", "application/json">>,
                        <<"Authorization", auth_header>> >>,
         body |-> [json |-> query_body]]

\* the request that send_remoteit_graphql_request sends at clock t
send_remoteit_graphql_request(credentials, query_body, t) ==
    LET date == get_date(t)
        auth_header == build_auth_header(credentials.r3_access_key_id,
                                         Credentials_key(credentials),
                                         "application/json", "POST", GRAPHQL_PATH, date)
    IN  [method |-> "POST",
         url |-> BASE_URL \o GRAPHQL_PATH,
         headers |-> << <<"Date", date>>,
                        <<"Content-Type", "application/json">>,
                        <<"Authorization", auth_header>> >>,
         body |-> [json |-> query_body]]

\* an async GraphQL request dated from a date kept between calls
send_remoteit_graphql_request_async_kept_date(credentials, query_body, t) ==
    LET date == get_date(0)
        auth_header == build_auth_header(credentials.r3_access_key_id,
                                         Credentials_key(credentials),
                                         "application/json", "POST", GRAPHQL_PATH, date)
    IN  [method |-> "POST",
         url |-> BASE_URL \o GRAPHQL_PATH,
         headers |-> << <<"Date", date>>,
                        <<"Content-Type", "application/json">>,
                        <<"Authorization", auth_header>> >>,
         body |-> [json |-> query_body]]

\* the request that send_remoteit_graphql_request_async sends at clock t
send_remoteit_graphql_request_async(credentials, query_body, t) ==
    LET date == get_date(t)
        auth_header == build_auth_header(credentials.r3_access_key_id,
                                         Credentials_key(credentials),
                                         "application/json", "POST", GRAPHQL_PATH, date)
    IN  [method |-> "POST",
         url |-> BASE_URL \o GRAPHQL_PATH,
         headers |-> << <<"Date", date>>,
                        <<"Content-Type", "application/json">>,
                        <<"Authorization", auth_header>> >>,
         body |-> [json |-> query_body]]

\* What the server may answer: no answer at all, or a status with a body that
\* is the expected data, a JSON object with a message, or no JSON.
Responses ==
    {[kind |-> "network_error"],
     [kind |-> "response", status |-> 200, body |-> "data"],
     [kind |-> "response", status |-> 200, body |-> "not_json"],
     [kind |-> "response", status |-> 200, body |-> "error_message"],
     [kind |-> "response", status |-> 500, body |-> "error_message"],
     [kind |-> "response", status |-> 500, body |-> "not_json"]}

is_success(status) == status >= 200 /\ status <= 299

\* what a GraphQL call returns for an answer: the status is not looked at,
\* and every JSON object deserializes as a graphql_client Response
graphql_result(response) ==
    IF response.kind = "network_error" THEN [ok |-> FALSE, error |-> "reqwest::Error(send)"]
    ELSE IF response.body = "not_json" THEN [ok |-> FALSE, error |-> "reqwest::Error(decode)"]
    ELSE [ok |-> TRUE, status |-> response.status, body |-> response.body]

\* X::build_query(x::Variables { .. }): the JSON envelope of the query of
\* the operation and its variables, each variable a name and the sequence
\* of its values (empty for None)
build_query(operation_name, variables) ==
    [operation_name |-> operation_name, variables |-> variables]

\* the arguments the GraphQL operations are called with
GraphqlArguments ==
    [file_id |-> <<"f1">>, file_version_id |-> <<"v1">>, device_ids |-> <<"d1", "d2">>,
     arguments |-> None, job_id |-> <<"j1">>, org_id |-> <<"o1">>, limit |-> <<"10">>,
     offset |-> None, job_id_filter |-> <<"j1", "j2">>, status_filter |-> <<"RUNNING">>]

\* the query each _async operation builds from its arguments, with
\* delete_file_async building the query of DeleteFileVersion
AsyncOperations_wrong_delete(a) ==
    [get_files |-> build_query("GetFiles", <<>>),
     delete_file |-> build_query("DeleteFileVersion", << <<"fileVersionId", a.file_id>> >>),
     delete_file_version |->
        build_query("DeleteFileVersion", << <<"fileVersionId", a.file_version_id>> >>),
     start_job |-> build_query("StartJob", << <<"fileId", a.file_id>>,
                                              <<"deviceIds", a.device_ids>>,
                                              <<"arguments", a.arguments>> >>),
     cancel_job |-> build_query("CancelJob", << <<"jobId", a.job_id>> >>),
     get_jobs |-> build_query("GetJobs", << <<"orgId", a.org_id>>, <<"limit", a.limit>>,
                                            <<"jobIds", a.job_id_filter>>,
                                            <<"statuses", a.status_filter>> >>),
     get_application_types |-> build_query("GetApplicationTypes", <<>>),
     get_devices |-> build_query("GetDevices", << <<"orgId", a.org_id>>,
                                                  <<"limit", a.limit>>,
                                                  <<"offset", a.offset>> >>)]

\* api_blocking.rs: the query each blocking operation builds from its arguments
BlockingOperations(a) ==
    [get_files |-> build_query("GetFiles", <<>>),
     delete_file |-> build_query("DeleteFile", << <<"fileId", a.file_id>> >>),
     delete_file_version |->
        build_query("DeleteFileVersion", << <<"fileVersionId", a.file_version_id>> >>),
     start_job |-> build_query("StartJob", << <<"fileId", a.file_id>>,
                                              <<"deviceIds", a.device_ids>>,
                                              <<"arguments", a.arguments>> >>),
     cancel_job |-> build_query("CancelJob", << <<"jobId", a.job_id>> >>),
     get_jobs |-> build_query("GetJobs", << <<"orgId", a.org_id>>, <<"limit", a.limit>>,
                                            <<"jobIds", a.job_id_filter>>,
                                            <<"statuses", a.status_filter>> >>),
     get_application_types |-> build_query("GetApplicationTypes", <<>>),
     get_devices |-> build_query("GetDevices", << <<"orgId", a.org_id>>,
                                                  <<"limit", a.limit>>,
                                                  <<"offset", a.offset>> >>)]

\* api_async.rs: the query each _async operation builds from its arguments
AsyncOperations(a) ==
    [get_files |-> build_query("GetFiles", <<>>),
     delete_file |-> build_query("DeleteFile", << <<"fileId", a.file_id>> >>),
     delete_file_version |->
        build_query("DeleteFileVersion", << <<"fileVersionId", a.file_version_id>> >>),
     start_job |-> build_query("StartJob", << <<"fileId", a.file_id>>,
                                              <<"deviceIds", a.device_ids>>,
                                              <<"arguments", a.arguments>> >>),
     cancel_job |-> build_query("CancelJob", << <<"jobId", a.job_id>> >>),
     get_jobs |-> build_query("GetJobs", << <<"orgId", a.org_id>>, <<"limit", a.limit>>,
                                            <<"jobIds", a.job_id_filter>>,
                                            <<"statuses", a.status_filter>> >>),
     get_application_types |-> build_query("GetApplicationTypes", <<>>),
     get_devices |-> build_query("GetDevices", << <<"orgId", a.org_id>>,
                                                  <<"limit", a.limit>>,
                                                  <<"offset", a.offset>> >>)]

\* the operations that the client calls in the model
CalledOperations == {"get_files", "delete_file"}

QueryBodies == {BlockingOperations(GraphqlArguments)[op] : op \in CalledOperations}
AsyncQueryBodies == {AsyncOperations(GraphqlArguments)[op] : op \in CalledOperations}

-----------------------------------------------------------------------------
(* file_upload.rs: multipart file upload *)

\* the local files there are, with their content
Disk == [p \in {"/tmp/a.sh", "b.sh"} |-> IF p = "b.sh" THEN "echo b" ELSE "echo a"]

FileUploads ==
    [file_name : {"a.sh", "b.sh"}, file_path : {"/tmp/a.sh", "/tmp/gone.sh"},
     executable : {TRUE}, short_desc : {None, Some("short")}, long_desc : {None}]

Boundaries == {"0a1b", "2c3d"}

\* Path::file_name: the text after the last /
RECURSIVE Basename(_)
Basename(path) ==
    IF FindChar(path, "/", 1) = 0 THEN path
    ELSE Basename(SubSeq(path, FindChar(path, "/", 1) + 1, Len(path)))

bool_to_string(b) == IF b THEN "true" ELSE "false"

\* the text parts that both variants add after the file part
text_parts(file_upload) ==
    << [name |-> "executable", text |-> bool_to_string(file_upload.executable)] >>
        \o (IF file_upload.short_desc # None
            THEN << [name |-> "shortDesc", text |-> file_upload.short_desc[1]] >> ELSE <<>>)
        \o (IF file_upload.long_desc # None
            THEN << [name |-> "longDesc", text |-> file_upload.long_desc[1]] >> ELSE <<>>)

\* upload_file: Form::new().file(file_name, file_path)? and the text parts
upload_file_form(file_upload, boundary) ==
    IF file_upload.file_path \notin DOMAIN Disk
    THEN [ok |-> FALSE, error |-> "IO"]
    ELSE [ok |-> TRUE,
          form |-> [boundary |-> boundary,
                    parts |-> << [name |-> file_upload.file_name,
                                  file_name |-> Basename(file_upload.file_path),
                                  content |-> Disk[file_upload.file_path]] >>
                              \o text_parts(file_upload)]]

\* upload_file_async: the file that is opened is the one named file_name
upload_file_async_form(file_upload, boundary) ==
    IF file_upload.file_name \notin DOMAIN Disk
    THEN [ok |-> FALSE, error |-> "IO"]
    ELSE [ok |-> TRUE,
          form |-> [boundary |-> boundary,
                    parts |-> << [name |-> file_upload.file_name,
                                  file_name |-> Basename(file_upload.file_path),
                                  content |-> Disk[file_upload.file_name]] >>
                              \o text_parts(file_upload)]]

\* an upload signed with the text of the secret access key as the key id
upload_file_secret_as_key_id(credentials, form, t) ==
    LET content_type == "multipart/form-data; boundary=" \o form.boundary
        date == get_date(t)
        auth_header == build_auth_header(credentials.r3_secret_access_key,
                                         Credentials_key(credentials),
                                         content_type, "POST", FILE_UPLOAD_PATH, date)
    IN  [method |-> "POST",
         url |-> BASE_URL \o FILE_UPLOAD_PATH,
         headers |-> << <<"Date", date>>,
                        <<"Authorization", auth_header>>,
                        <<"Content-Type", content_type>> >>,
         body |-> [multipart |-> form]]

\* the request that upload_file sends at clock t
upload_file(credentials, form, t) ==
    LET content_type == "multipart/form-data; boundary=" \o form.boundary
        date == get_date(t)
        auth_header == build_auth_header(credentials.r3_access_key_id,
                                         Credentials_key(credentials),
                                         content_type, "POST", FILE_UPLOAD_PATH, date)
    IN  [method |-> "POST",
         url |-> BASE_URL \o FILE_UPLOAD_PATH,
         headers |-> << <<"Date", date>>,
                        <<"Authorization", auth_header>>,
                        <<"Content-Type", content_type>> >>,
         body |-> [multipart |-> form]]

upload_file_async_signs_json(credentials, form, t) ==
    LET content_type == "multipart/form-data; boundary=" \o form.boundary
        date == get_date(t)
        auth_header == build_auth_header(credentials.r3_access_key_id,
                                         Credentials_key(credentials),
                                         "application/json", "POST", FILE_UPLOAD_PATH, date)
    IN  [method |-> "POST",
         url |-> BASE_URL \o FILE_UPLOAD_PATH,
         headers |-> << <<"Date", date>>,
                        <<"Authorization", auth_header>>,
                        <<"Content-Type", content_type>> >>,
         body |-> [multipart |-> form]]

\* the request that upload_file_async sends at clock t
upload_file_async(credentials, form, t) ==
    LET content_type == "multipart/form-data; boundary=" \o form.boundary
        date == get_date(t)
        auth_header == build_auth_header(credentials.r3_access_key_id,
                                         Credentials_key(credentials),
                                         content_type, "POST", FILE_UPLOAD_PATH, date)
    IN  [method |-> "POST",
         url |-> BASE_URL \o FILE_UPLOAD_PATH,
         headers |-> << <<"Date", date>>,
                        <<"Authorization", auth_header>>,
                        <<"Content-Type", content_type>> >>,
         body |-> [multipart |-> form]]

\* an upload answer handled without looking at its status
upload_result_no_status(response) ==
    IF response.kind = "network_error" THEN [ok |-> FALSE, error |-> "Reqwest"]
    ELSE IF response.body = "data" THEN [ok |-> TRUE]
    ELSE [ok |-> FALSE, error |-> "ParseJson"]

\* an upload answer whose deserialization failure is passed on as Reqwest
upload_result_from_reqwest(response) ==
    IF response.kind = "network_error" THEN [ok |-> FALSE, error |-> "Reqwest"]
    ELSE IF is_success(response.status)
    THEN IF response.body = "data" THEN [ok |-> TRUE]
         ELSE [ok |-> FALSE, error |-> "Reqwest"]
    ELSE IF response.body = "error_message"
         THEN [ok |-> FALSE, error |-> "ApiError", error_response |-> response.body]
         ELSE [ok |-> FALSE, error |-> "Reqwest"]

\* what a file upload returns for an answer: the body is deserialized as an
\* UploadFileResponse under a success status and as an ErrorResponse under
\* any other, and ParseJson is the failure of either
upload_result(response) ==
    IF response.kind = "network_error" THEN [ok |-> FALSE, error |-> "Reqwest"]
    ELSE IF is_success(response.status)
    THEN IF response.body = "data" THEN [ok |-> TRUE]
         ELSE [ok |-> FALSE, error |-> "ParseJson"]
    ELSE IF response.body = "error_message"
         THEN [ok |-> FALSE, error |-> "ApiError", error_response |-> response.body]
         ELSE [ok |-> FALSE, error |-> "ParseJson"]

-----------------------------------------------------------------------------
(* The state machine *)

NoCall == [none |-> TRUE]
NoTake == [none |-> TRUE]
NoOutcome == [op |-> "none"]

\* the concurrent calls, and a call that has not started
CallIds == 1..MaxCalls
Idle == [pc |-> "idle"]

\* the inputs that build_auth_header is called with directly
KeyIds == {"foo", "baz"}
Keys == {<<98, 97, 114>>, <<98, 97, 114, 0>>, <<113, 117, 120>>}
ContentTypes == {"application/json", "multipart/form-data; boundary=0a1b"}
Methods == {"POST", "post", "GET"}
Paths == {GRAPHQL_PATH, FILE_UPLOAD_PATH}
Dates == {get_date(t) : t \in 0..1}

\* what Credentials::builder() is given directly
AccessKeyIds == {"foo"}
SecretAccessKeys == {"YmFy", "bar", "not-base64!"}

\* the secrets of the credentials that clients are built with
ClientSecrets == {"YmFy", "cXV4"}

Init ==
    /\ now = 0
    /\ sig_prev = NoCall
    /\ sig_last = NoCall
    /\ built = NoCredentials
    /\ loaded = NotLoaded
    /\ profiles = <<>>
    /\ taken = NoTake
    /\ client = NoClient
    /\ wire = <<>>
    /\ outcome = NoOutcome
    /\ calls = [i \in CallIds |-> Idle]

\* time passes
Tick ==
    /\ now < MaxTime
    /\ now' = now + 1
    /\ UNCHANGED <<sig_prev, sig_last, built, loaded, profiles, taken, client, wire, outcome, calls>>

\* the record of a build_auth_header call: its inputs, the clock, its result
SignerCallRecord(key_id, key, content_type, method, path, date) ==
    [key_id |-> key_id, key |-> key, content_type |-> content_type,
     method |-> method, path |-> path, date |-> date, at |-> now,
     header |-> build_auth_header(key_id, key, content_type, method, path, date)]

\* the inputs that differ from the inputs of the call c in at most one place
OneInputChanged(c) ==
    {[c EXCEPT !.key_id = v] : v \in KeyIds}
        \cup {[c EXCEPT !.key = v] : v \in Keys}
        \cup {[c EXCEPT !.content_type = v] : v \in ContentTypes}
        \cup {[c EXCEPT !.method = v] : v \in Methods}
        \cup {[c EXCEPT !.path = v] : v \in Paths}
        \cup {[c EXCEPT !.date = v] : v \in Dates}

\* a caller builds an Authorization header value with build_auth_header
SignerCall ==
    \E key_id \in KeyIds, key \in Keys, content_type \in ContentTypes,
       method \in Methods, path \in Paths, date \in Dates :
        /\ sig_last = NoCall
        /\ sig_prev' = sig_last
        /\ sig_last' = SignerCallRecord(key_id, key, content_type, method, path, date)
        /\ UNCHANGED <<now, built, loaded, profiles, taken, client, wire, outcome, calls>>

\* a caller calls build_auth_header again, with the same inputs or with one
\* input changed
SignerCallAgain ==
    /\ sig_last # NoCall
    /\ \E c \in OneInputChanged(sig_last) :
        /\ sig_prev' = sig_last
        /\ sig_last' = SignerCallRecord(c.key_id, c.key, c.content_type,
                                        c.method, c.path, c.date)
        /\ UNCHANGED <<now, built, loaded, profiles, taken, client, wire, outcome, calls>>

\* Credentials::builder().r3_access_key_id(..).r3_secret_access_key(..).build()
BuildCredentials ==
    \E id \in AccessKeyIds, secret \in SecretAccessKeys :
        /\ built' = [r3_access_key_id |-> id, r3_secret_access_key |-> secret,
                     result |-> Credentials_build(id, secret)]
        /\ UNCHANGED <<now, sig_prev, sig_last, loaded, profiles, taken, client, wire, outcome, calls>>

\* Credentials::load_from_disk().custom_credentials_path(..).call()
LoadFromDisk ==
    \E custom \in CustomPaths, home \in HomeDirs :
        LET r == load_from_disk(custom, home)
        IN  /\ loaded' = [custom_credentials_path |-> custom, home_dir |-> home,
                          ok |-> r.ok, error |-> IF r.ok THEN "" ELSE r.error]
            /\ profiles' = IF r.ok THEN r.profiles ELSE <<>>
            /\ taken' = NoTake
            /\ UNCHANGED <<now, sig_prev, sig_last, built, client, wire, outcome, calls>>

\* credentials.take_profile(name) on the loaded file; got is the names for
\* which this CredentialProfiles has returned credentials so far
TakeProfile ==
    \E name \in ProfileNames :
        LET r == take_profile(profiles, name)
        IN  /\ loaded # NotLoaded
            /\ loaded.ok
            /\ taken' = [profile_name |-> name,
                         found |-> IF name \in DOMAIN profiles
                                   THEN Some(profiles[name]) ELSE None,
                         result |-> r.result,
                         got |-> (IF taken = NoTake THEN {} ELSE taken.got)
                                    \cup (IF r.result.ok /\ r.result.some
                                          THEN {name} ELSE {})]
            /\ profiles' = r.profiles
            /\ UNCHANGED <<now, sig_prev, sig_last, built, loaded, client, wire, outcome, calls>>

\* the credentials the caller holds: built directly or taken from a profile
HeldCredentials ==
    (IF built # NoCredentials /\ built.result.ok THEN {built.result.value} ELSE {})
        \cup (IF taken # NoTake /\ taken.result.ok /\ taken.result.some
              THEN {taken.result.value} ELSE {})

\* R3Client::builder().credentials(..).build() with credentials the caller holds
BuildClient ==
    \E credentials \in HeldCredentials :
        /\ client' = credentials
        /\ UNCHANGED <<now, sig_prev, sig_last, built, loaded, profiles, taken, wire, outcome, calls>>

\* Credentials::builder()...build() and R3Client::builder().credentials(..).build()
NewClient ==
    \E id \in AccessKeyIds, secret \in ClientSecrets :
        /\ Credentials_build(id, secret).ok
        /\ client' = Credentials_build(id, secret).value
        /\ UNCHANGED <<now, sig_prev, sig_last, built, loaded, profiles, taken, wire, outcome, calls>>

\* a blocking GraphQL call (get_files, delete_file, ...): &self
GraphqlBlocking ==
    \E query_body \in QueryBodies, response \in Responses :
        /\ client # NoClient
        /\ wire' = <<send_remoteit_graphql_request(client, query_body, now)>>
        /\ outcome' = [op |-> "graphql", response |-> response,
                       result |-> graphql_result(response)]
        /\ UNCHANGED <<now, sig_prev, sig_last, built, loaded, profiles, taken, client, calls>>

\* an async GraphQL call (get_files_async, ...): self is moved into the call
GraphqlAsync ==
    \E query_body \in AsyncQueryBodies, response \in Responses :
        /\ client # NoClient
        /\ wire' = <<send_remoteit_graphql_request_async(client, query_body, now)>>
        /\ outcome' = [op |-> "graphql_async", response |-> response,
                       result |-> graphql_result(response)]
        /\ client' = NoClient
        /\ UNCHANGED <<now, sig_prev, sig_last, built, loaded, profiles, taken, calls>>

\* client.upload_file().file_upload(..).call()
UploadFile ==
    \E file_upload \in FileUploads, boundary \in Boundaries, response \in Responses :
        LET f == upload_file_form(file_upload, boundary)
        IN  /\ client # NoClient
            /\ wire' = IF f.ok THEN <<upload_file(client, f.form, now)>> ELSE <<>>
            /\ outcome' = [op |-> "upload_file", file_upload |-> file_upload,
                           response |-> IF f.ok THEN response ELSE [kind |-> "none"],
                           result |-> IF f.ok THEN upload_result(response)
                                      ELSE [ok |-> FALSE, error |-> f.error]]
            /\ UNCHANGED <<now, sig_prev, sig_last, built, loaded, profiles, taken, client, calls>>

\* client.upload_file_async().file_upload(..).call().await
UploadFileAsync ==
    \E file_upload \in FileUploads, boundary \in Boundaries, response \in Responses :
        LET f == upload_file_async_form(file_upload, boundary)
        IN  /\ client # NoClient
            /\ wire' = IF f.ok THEN <<upload_file_async(client, f.form, now)>> ELSE <<>>
            /\ outcome' = [op |-> "upload_file_async", file_upload |-> file_upload,
                           response |-> IF f.ok THEN response ELSE [kind |-> "none"],
                           result |-> IF f.ok THEN upload_result(response)
                                      ELSE [ok |-> FALSE, error |-> f.error]]
            /\ UNCHANGED <<now, sig_prev, sig_last, built, loaded, profiles, taken, client, calls>>

\* R3Client::builder().credentials(..).build(), once, before the concurrent
\* calls that share the client are started
BuildSharedClient ==
    \E id \in AccessKeyIds, secret \in ClientSecrets :
        /\ client = NoClient
        /\ client' = Credentials_build(id, secret).value
        /\ UNCHANGED <<now, sig_prev, sig_last, built, loaded, profiles, taken, wire, outcome, calls>>

\* the operations that run concurrently, the file they upload and the
\* answers they get
ConcurrentOps == {"graphql_async", "upload_file_async"}
ConcurrentUpload ==
    [file_name |-> "b.sh", file_path |-> "/tmp/a.sh", executable |-> TRUE,
     short_desc |-> None, long_desc |-> None]
ConcurrentResponses ==
    {r \in Responses : r.kind = "network_error" \/ r.body = "data"}

\* call i starts: it builds its form (an upload) and reads the clock into
\* its own date
CallStart(i) ==
    \E op \in ConcurrentOps, boundary \in Boundaries :
        /\ client # NoClient
        /\ calls[i].pc = "idle"
        /\ op = "graphql_async" => boundary = "0a1b"
        /\ calls' = [calls EXCEPT ![i] =
                        [pc |-> "started", op |-> op, boundary |-> boundary, t |-> now]]
        /\ UNCHANGED <<now, sig_prev, sig_last, built, loaded, profiles, taken, client,
                       wire, outcome>>

\* call i signs with its own values and sends its request
CallSend(i) ==
    /\ calls[i].pc = "started"
    /\ calls' = [calls EXCEPT ![i] =
                    [pc |-> "sent", op |-> calls[i].op, boundary |-> calls[i].boundary,
                     t |-> calls[i].t,
                     request |->
                        IF calls[i].op = "graphql_async"
                        THEN send_remoteit_graphql_request_async(
                                 client, AsyncOperations(GraphqlArguments).get_files,
                                 calls[i].t)
                        ELSE upload_file_async(
                                 client,
                                 upload_file_async_form(ConcurrentUpload,
                                                        calls[i].boundary).form,
                                 calls[i].t)]]
    /\ UNCHANGED <<now, sig_prev, sig_last, built, loaded, profiles, taken, client,
                   wire, outcome>>

\* the answer to call i arrives and the call returns
CallReturn(i) ==
    \E response \in ConcurrentResponses :
        /\ calls[i].pc = "sent"
        /\ calls' = [calls EXCEPT ![i] =
                        [pc |-> "done", op |-> calls[i].op, boundary |-> calls[i].boundary,
                         t |-> calls[i].t, request |-> calls[i].request,
                         response |-> response,
                         result |-> IF calls[i].op = "graphql_async"
                                    THEN graphql_result(response)
                                    ELSE upload_result(response)]]
        /\ UNCHANGED <<now, sig_prev, sig_last, built, loaded, profiles, taken, client,
                       wire, outcome>>

Next ==
    \/ BuildCredentials
    \/ LoadFromDisk
    \/ TakeProfile
    \/ BuildClient

\* the credentials, the credentials file and a client built from them
Spec == Init /\ [][Next]_vars

ClientNext ==
    \/ Tick
    \/ NewClient
    \/ GraphqlBlocking
    \/ GraphqlAsync
    \/ UploadFile
    \/ UploadFileAsync

\* the operations of a client
ClientSpec == Init /\ [][ClientNext]_vars

SessionNext ==
    \/ BuildCredentials
    \/ LoadFromDisk
    \/ TakeProfile
    \/ BuildClient
    \/ GraphqlBlocking

\* a caller that obtains credentials, builds a client and sends requests
SessionSpec == Init /\ [][SessionNext]_vars

ConcurrentNext ==
    \/ Tick
    \/ BuildSharedClient
    \/ \E i \in CallIds : CallStart(i)
    \/ \E i \in CallIds : CallSend(i)
    \/ \E i \in CallIds : CallReturn(i)

\* client operations that run concurrently with the same credentials
ConcurrentSpec == Init /\ [][ConcurrentNext]_vars

SignerNext == Tick \/ SignerCall \/ SignerCallAgain

\* the signer alone, called with every combination of its inputs
SignerSpec == Init /\ [][SignerNext]_vars

-----------------------------------------------------------------------------
(* Properties of the signer, checked under SignerSpec *)

\* the build_auth_header calls on record
SignerCalls == {sig_prev, sig_last} \ {NoCall}

\* the lower-case spelling of each method name the signer is called with
LowerCaseName(method) ==
    CASE method = "POST" -> "post"
      [] method = "post" -> "post"
      [] method = "GET" -> "get"

\* the four lines that are to be signed for the inputs of the call c
CanonicalLines(c) ==
    << "(request-target): " \o LowerCaseName(c.method) \o " " \o c.path,
       "host: api.remote.it",
       "date: " \o c.date,
       "content-type: " \o c.content_type >>

\* the lines joined by newline characters, none after the last
CanonicalString(c) ==
    CanonicalLines(c)[1] \o "\n" \o CanonicalLines(c)[2] \o "\n"
        \o CanonicalLines(c)[3] \o "\n" \o CanonicalLines(c)[4]

\* C1: for all inputs build_auth_header returns exactly the text
\* Signature keyId="<key_id>",algorithm="hmac-sha256",headers="(request-target)
\* host date content-type",signature="<sig>" where <sig> is create_signature
\* of the key and the canonical signing string, with nothing before, between
\* or after the four fields.
C1_HeaderMatchesTemplate ==
    \A c \in SignerCalls :
        c.header =
            << "Signature "
                 \o "keyId=\"" \o c.key_id \o "\"" \o ","
                 \o "algorithm=\"hmac-sha256\"" \o ","
                 \o "headers=\"(request-target) host date content-type\"" \o ","
                 \o "signature=\"",
               create_signature(c.key, CanonicalString(c)),
               "\"" >>

C1_Witness ==
    /\ sig_last # NoCall
    /\ sig_last.key_id = "baz"
    /\ sig_last.method = "GET"
    /\ sig_last.path = FILE_UPLOAD_PATH

\* C2: the string build_auth_header signs is exactly four lines joined by
\* newlines with no trailing newline: the request target with the method in
\* lower case and the path, the host api.remote.it, the date, the content
\* type; path, date and content type appear as given.
C2_SignedStringLayout ==
    \A c \in SignerCalls :
        /\ Lines(SignedMessage(c.header)) = CanonicalLines(c)
        /\ SignedMessage(c.header) = CanonicalString(c)

C2_Witness ==
    /\ sig_last # NoCall
    /\ sig_last.method = "POST"
    /\ sig_last.content_type = "multipart/form-data; boundary=0a1b"
    /\ Len(Lines(SignedMessage(sig_last.header))) = 4

\* the two calls on record were given the same six inputs
SameInputs(a, b) ==
    /\ a.key_id = b.key_id
    /\ a.key = b.key
    /\ a.content_type = b.content_type
    /\ a.method = b.method
    /\ a.path = b.path
    /\ a.date = b.date

OnlySignedInputChanged(a, b, f) ==
    /\ a[f] # b[f]
    /\ \A g \in {"key", "content_type", "method", "path", "date"} \ {f} : a[g] = b[g]

\* the two keys are the same bytes up to zero bytes at the end
RECURSIVE AllZero(_)
AllZero(bytes) == bytes = <<>> \/ (Head(bytes) = 0 /\ AllZero(Tail(bytes)))

SameUpToTrailingZeros(k1, k2) ==
    \/ Len(k1) <= Len(k2) /\ SubSeq(k2, 1, Len(k1)) = k1
                          /\ AllZero(SubSeq(k2, Len(k1) + 1, Len(k2)))
    \/ Len(k2) <= Len(k1) /\ SubSeq(k1, 1, Len(k2)) = k2
                          /\ AllZero(SubSeq(k1, Len(k2) + 1, Len(k1)))

\* C4 as stated: with the other inputs fixed, changing any one of method,
\* path, date, content_type or key to a different value changes the
\* signature, also for two methods that differ only in letter case.
C4_AnyChangeChangesSignature ==
    (sig_prev # NoCall /\ sig_last # NoCall)
        => \A f \in {"key", "content_type", "method", "path", "date"} :
              OnlySignedInputChanged(sig_prev, sig_last, f)
                  => SignatureOf(sig_prev.header) # SignatureOf(sig_last.header)

\* C4 amended: with the other inputs fixed, the signature changes when path,
\* date or content_type changes, when the method changes to one whose
\* lower-case name differs, and when the key changes to one that is not the
\* same key up to trailing zero bytes; it stays the same when the method
\* changes in letter case only or the key in trailing zero bytes only.
C4_EffectiveChangeChangesSignature ==
    (sig_prev # NoCall /\ sig_last # NoCall)
        => /\ \A f \in {"content_type", "path", "date"} :
                OnlySignedInputChanged(sig_prev, sig_last, f)
                    => SignatureOf(sig_prev.header) # SignatureOf(sig_last.header)
           /\ OnlySignedInputChanged(sig_prev, sig_last, "method")
                => (SignatureOf(sig_prev.header) # SignatureOf(sig_last.header)
                      <=> LowerCaseName(sig_prev.method) # LowerCaseName(sig_last.method))
           /\ OnlySignedInputChanged(sig_prev, sig_last, "key")
                => (SignatureOf(sig_prev.header) # SignatureOf(sig_last.header)
                      <=> ~SameUpToTrailingZeros(sig_prev.key, sig_last.key))

C4_Witness ==
    /\ sig_prev # NoCall
    /\ sig_last # NoCall
    /\ OnlySignedInputChanged(sig_prev, sig_last, "key")
    /\ sig_prev.key = <<98, 97, 114>>
    /\ sig_last.key = <<113, 117, 120>>
    /\ SignatureOf(sig_prev.header) # SignatureOf(sig_last.header)

\* the text of s after its first n characters
Drop(s, n) == SubSeq(s, n + 1, Len(s))

\* C5: with key, content_type, method, path and date fixed, two calls with
\* different key_id give headers that differ in the keyId field only: the
\* signature field is the same, key_id not being part of what is signed.
C5_KeyIdChangesOnlyKeyIdField ==
    (/\ sig_prev # NoCall
     /\ sig_last # NoCall
     /\ sig_prev.key_id # sig_last.key_id
     /\ \A g \in {"key", "content_type", "method", "path", "date"} :
            sig_prev[g] = sig_last[g])
        => /\ SignatureOf(sig_prev.header) = SignatureOf(sig_last.header)
           /\ sig_prev.header # sig_last.header
           /\ \A c \in {sig_prev, sig_last} :
                StartsWith(c.header[1], "Signature keyId=\"" \o c.key_id \o "\",")
           /\ Drop(sig_prev.header[1], Len("Signature keyId=\"" \o sig_prev.key_id))
                = Drop(sig_last.header[1], Len("Signature keyId=\"" \o sig_last.key_id))
           /\ sig_prev.header[3] = sig_last.header[3]

C5_Witness ==
    /\ sig_prev # NoCall
    /\ sig_last # NoCall
    /\ sig_prev.key_id = "foo"
    /\ sig_last.key_id = "baz"
    /\ \A g \in {"key", "content_type", "method", "path", "date"} :
            sig_prev[g] = sig_last[g]

-----------------------------------------------------------------------------
(* Properties of the requests the client operations send, under ClientSpec *)

\* the requests the last client operation sent
Sent == {wire[i] : i \in 1..Len(wire)}

\* the lines of the string signed for the Authorization header of a request
SignedLines(request) == Lines(SignedMessage(HeaderValue(request, "Authorization")))

\* the number of headers of the request with the given name
HeaderCount(request, name) ==
    Cardinality({i \in 1..Len(request.headers) : request.headers[i][1] = name})

IsGraphql(request) == "json" \in DOMAIN request.body
IsUpload(request) == "multipart" \in DOMAIN request.body

\* C6: in every request a client operation sends, blocking or async, GraphQL
\* or upload, the date is one reading of the clock and the Date header is
\* the same text as the date in the string signed for the Authorization
\* header.
C6_DateHeaderIsSignedDate ==
    \A r \in Sent :
        /\ HeaderCount(r, "Date") = 1
        /\ \E t \in 0..now : HeaderValue(r, "Date") = get_date(t)
        /\ Len(SignedLines(r)) = 4
        /\ SignedLines(r)[3] = "date: " \o HeaderValue(r, "Date")

C6_Witness ==
    /\ Len(wire) = 1
    /\ outcome.op = "graphql"
    /\ HeaderValue(wire[1], "Date") = get_date(1)

\* C7: in every request sent, the method, path and content type that were
\* signed are those of the request: POST, GRAPHQL_PATH and application/json
\* for a GraphQL call; POST, FILE_UPLOAD_PATH and multipart/form-data with
\* the boundary of the form that is sent for a file upload.
C7_SignedTargetIsSentTarget ==
    \A r \in Sent :
        /\ r.method = "POST"
        /\ HeaderCount(r, "Content-Type") = 1
        /\ Len(SignedLines(r)) = 4
        /\ SignedLines(r)[1] = "(request-target): post " \o PathOf(r.url)
        /\ SignedLines(r)[4] = "content-type: " \o HeaderValue(r, "Content-Type")
        /\ IsGraphql(r) => /\ PathOf(r.url) = GRAPHQL_PATH
                           /\ HeaderValue(r, "Content-Type") = "application/json"
        /\ IsUpload(r) => /\ PathOf(r.url) = FILE_UPLOAD_PATH
                          /\ HeaderValue(r, "Content-Type") =
                                "multipart/form-data; boundary=" \o r.body.multipart.boundary
        /\ IsGraphql(r) \/ IsUpload(r)

C7_Witness ==
    /\ Len(wire) = 1
    /\ outcome.op = "upload_file_async"
    /\ IsUpload(wire[1])
    /\ wire[1].body.multipart.boundary = "2c3d"

\* C8: the host in the signing string is the constant api.remote.it, the
\* host of BASE_URL, and no operation sends a request to another host.
C8_SignedHostIsRequestHost ==
    \A r \in Sent :
        /\ HostOf(r.url) = HostOf(BASE_URL)
        /\ Len(SignedLines(r)) = 4
        /\ SignedLines(r)[2] = "host: " \o HostOf(r.url)
        /\ SignedLines(r)[2] = "host: api.remote.it"

C8_Witness ==
    /\ Len(wire) = 1
    /\ outcome.op = "upload_file"
    /\ HostOf(wire[1].url) = "api.remote.it"

-----------------------------------------------------------------------------
(* Properties of the credentials and the credentials file, under Spec *)

\* C9: building a Credentials value from a secret access key that is not
\* valid base64 fails with a validation error and yields no Credentials.
C9_InvalidSecretIsRejected ==
    (built # NoCredentials /\ ~IsValidBase64(built.r3_secret_access_key))
        => ~built.result.ok

\* C10: take_profile of a loaded profile whose secret access key is not
\* valid base64 returns an error and never Ok(Some(credentials)).
C10_TakeInvalidProfileIsError ==
    (/\ taken # NoTake
     /\ taken.found # None
     /\ ~IsValidBase64(taken.found[1].r3_secret_access_key))
        => ~taken.result.ok

-----------------------------------------------------------------------------
(* Credentials that reach a client, under SessionSpec *)

\* C11: no client operation sends a request with credentials whose secret
\* access key is not valid base64: whenever an operation puts a request on
\* the wire, the secret of the client's credentials is valid base64.
C11_NoRequestWithInvalidSecret ==
    [][(wire' # <<>> /\ <<wire, outcome>>' # <<wire, outcome>>)
          => IsValidBase64(client.r3_secret_access_key)]_vars

-----------------------------------------------------------------------------
(* Properties of the loaded profiles, under Spec *)

\* a step in which take_profile was called: it leaves its record in taken
TakeStep ==
    /\ taken' # NoTake
    /\ <<taken, profiles>>' # <<taken, profiles>>

\* C12: take_profile of a name that is not among the loaded profiles
\* returns Ok(None), neither an error nor any Credentials value, and
\* leaves the loaded profiles as they were.
C12_TakeAbsentIsNone ==
    [][(TakeStep /\ taken'.found = None)
          => /\ taken'.result = [ok |-> TRUE, some |-> FALSE]
             /\ profiles' = profiles]_vars

C12_Witness ==
    /\ taken # NoTake
    /\ taken.profile_name = "absent"
    /\ taken.found = None
    /\ taken.result = [ok |-> TRUE, some |-> FALSE]
    /\ len(profiles) = 2

\* the path that the last load_from_disk call was to read, and the sections
\* of the file there
LoadedPath ==
    IF loaded.custom_credentials_path # None THEN loaded.custom_credentials_path[1]
    ELSE DefaultCredentialsPath
LoadedSections == CredentialFiles[LoadedPath].sections

C14_TakenOnlyOnce ==
    [][TakeStep =>
          /\ (taken'.result.ok /\ taken'.result.some)
                => len(profiles') = len(profiles) - 1
          /\ (taken # NoTake /\ taken'.profile_name \in taken.got)
                => taken'.result = [ok |-> TRUE, some |-> FALSE]]_vars

C14_Witness ==
    /\ taken # NoTake
    /\ taken.got = {"default", "other"}
    /\ taken.profile_name = "other"
    /\ taken.result = [ok |-> TRUE, some |-> FALSE]
    /\ len(profiles) = 0

\* C15: load_from_disk on a file that is not a valid INI credentials file
\* returns CredentialsLoaderError::CredentialsParse and no profiles.
C15_NotIniIsCredentialsParse ==
    (/\ loaded # NotLoaded
     /\ LoadedPath \in DOMAIN CredentialFiles
     /\ ~CredentialFiles[LoadedPath].ini)
        => /\ ~loaded.ok
           /\ loaded.error = "CredentialsParse"
           /\ is_empty(profiles)

\* C16: with a custom credentials path load_from_disk reads that path and
\* never returns HomeDirNotFound, whatever the home directory is.
C16_CustomPathNeedsNoHomeDir ==
    (loaded # NotLoaded /\ loaded.custom_credentials_path # None)
        => /\ loaded.error # "HomeDirNotFound"
           /\ loaded.ok <=> (/\ LoadedPath \in DOMAIN CredentialFiles
                              /\ CredentialFiles[LoadedPath].ini)

-----------------------------------------------------------------------------
(* Properties of the answers of the client operations, under ClientSpec *)

GraphqlOps == {"graphql", "graphql_async"}
UploadOps == {"upload_file", "upload_file_async"}

\* C17: a GraphQL call returns an error whenever the server's response has
\* a status that is not 2xx, whatever its body, and returns Ok only for a
\* 2xx response whose body deserializes.
C17_GraphqlErrorStatusIsError ==
    (outcome.op \in GraphqlOps /\ outcome.response.kind = "response")
        => /\ ~is_success(outcome.response.status) => ~outcome.result.ok
           /\ outcome.result.ok => /\ is_success(outcome.response.status)
                                    /\ outcome.response.body # "not_json"

\* the request of the last call failed: no answer, an answer with an error
\* status, or an answer whose body cannot be deserialized
FailedRequest ==
    \/ outcome.response.kind = "network_error"
    \/ /\ outcome.response.kind = "response"
       /\ \/ ~is_success(outcome.response.status)
          \/ outcome.response.body = "not_json"

\* the last call signed once and sent at most one request
OneSignedRequest ==
    /\ Len(wire) <= 1
    /\ \A r \in Sent : HeaderCount(r, "Authorization") = 1

\* C18: every call of a client operation computes one signature and sends
\* at most one request; after a failed request (network error, error status
\* or undeserializable body) nothing more is sent and the caller gets the
\* error.
C18_OneRequestNoRetry ==
    outcome.op # "none" =>
        /\ OneSignedRequest
        /\ FailedRequest => (Len(wire) = 1 /\ ~outcome.result.ok)

\* the last call was an upload and the server answered it
UploadAnswered ==
    outcome.op \in UploadOps /\ outcome.response.kind = "response"

\* the error kind the last call returned, if it returned an error
Failed(kind) == ~outcome.result.ok /\ outcome.result.error = kind

\* the body is the JSON of an UploadFileResponse / of an ErrorResponse
IsUploadFileResponse(body) == body = "data"
IsErrorResponse(body) == body = "error_message"

\* C19 as stated: an upload answered with a status that is not a success
\* returns ApiError carrying the server's message, never ParseJson, never Ok.
C19_ErrorStatusIsApiError ==
    (UploadAnswered /\ ~is_success(outcome.response.status))
        => /\ Failed("ApiError")
           /\ outcome.result.error_response = outcome.response.body

\* C19: an upload answered with a status that is not a success never
\* returns Ok; it returns ApiError carrying the server's ErrorResponse when
\* the body is one, and ParseJson when the body is anything else.
C19_ErrorStatusIsApiErrorOrParseJson ==
    (UploadAnswered /\ ~is_success(outcome.response.status))
        => /\ ~outcome.result.ok
           /\ IsErrorResponse(outcome.response.body)
                => /\ Failed("ApiError")
                   /\ outcome.result.error_response = outcome.response.body
           /\ ~IsErrorResponse(outcome.response.body) => Failed("ParseJson")

C19_Witness ==
    /\ outcome.op = "upload_file_async"
    /\ outcome.response = [kind |-> "response", status |-> 500, body |-> "error_message"]
    /\ outcome.result = [ok |-> FALSE, error |-> "ApiError",
                         error_response |-> "error_message"]
    /\ Len(wire) = 1

\* C20 as stated: an upload returns ParseJson exactly when the answer has a
\* success status and a body that is no UploadFileResponse.
C20_ParseJsonOnlyUnderSuccessStatus ==
    outcome.op \in UploadOps =>
        (Failed("ParseJson") <=>
            /\ outcome.response.kind = "response"
            /\ is_success(outcome.response.status)
            /\ ~IsUploadFileResponse(outcome.response.body))

\* C20: an upload returns ParseJson exactly when the server answered and the
\* body is not what its status calls for, an UploadFileResponse under a
\* success status or an ErrorResponse under any other; a failed send is
\* Reqwest, an unreadable file is IO before any request, and an ErrorResponse
\* under an error status is ApiError.
C20_ParseJsonIsBodyMismatch ==
    outcome.op \in UploadOps =>
        /\ Failed("ParseJson") <=>
              /\ outcome.response.kind = "response"
              /\ IF is_success(outcome.response.status)
                 THEN ~IsUploadFileResponse(outcome.response.body)
                 ELSE ~IsErrorResponse(outcome.response.body)
        /\ Failed("Reqwest") <=> outcome.response.kind = "network_error"
        /\ Failed("IO") <=> (outcome.response.kind = "none" /\ wire = <<>>)
        /\ Failed("ApiError") <=>
              /\ outcome.response.kind = "response"
              /\ ~is_success(outcome.response.status)
              /\ IsErrorResponse(outcome.response.body)

C20_Witness ==
    /\ outcome.op = "upload_file"
    /\ outcome.response = [kind |-> "response", status |-> 200, body |-> "error_message"]
    /\ outcome.result = [ok |-> FALSE, error |-> "ParseJson"]
    /\ Len(wire) = 1

-----------------------------------------------------------------------------
(* Properties of what the uploads read and send, under ClientSpec *)

\* C21: upload_file and upload_file_async upload the same thing for the
\* same FileUpload: the content of the local file at file_path, in a part
\* named file_name; file_name is never opened as a local path, so the call
\* fails with IO exactly when there is no file at file_path.
C21_UploadReadsFilePath ==
    outcome.op \in UploadOps =>
        IF outcome.file_upload.file_path \in DOMAIN Disk
        THEN /\ Len(wire) = 1
             /\ wire[1].body.multipart.parts[1].name = outcome.file_upload.file_name
             /\ wire[1].body.multipart.parts[1].content =
                    Disk[outcome.file_upload.file_path]
        ELSE wire = <<>> /\ Failed("IO")

-----------------------------------------------------------------------------
(* Properties of the client's credentials, under ClientSpec *)

\* a step in which a client operation was called
OperationStep == <<wire, outcome>>' # <<wire, outcome>>

\* C22: the credentials of a client are immutable: after any client
\* operation, successful or failed, credentials() of the client returns the
\* access key id and the secret the client held before the operation.
C22_CredentialsImmutable ==
    [][(OperationStep /\ client' # NoClient)
          => /\ client # NoClient
             /\ R3Client_credentials(client').r3_access_key_id = client.r3_access_key_id
             /\ R3Client_credentials(client').r3_secret_access_key =
                    client.r3_secret_access_key]_vars

C22_Witness ==
    /\ outcome.op = "upload_file"
    /\ ~outcome.result.ok
    /\ client # NoClient
    /\ R3Client_credentials(client) = [r3_access_key_id |-> "foo",
                                       r3_secret_access_key |-> "cXV4"]

-----------------------------------------------------------------------------
(* Properties of concurrent calls, under ConcurrentSpec *)

\* the calls that have sent their request, and those that have returned
SentCalls == {i \in CallIds : calls[i].pc \in {"sent", "done"}}
DoneCalls == {i \in CallIds : calls[i].pc = "done"}

\* the path and the content type that belong to a call
OwnPath(c) == IF c.op = "graphql_async" THEN GRAPHQL_PATH ELSE FILE_UPLOAD_PATH
OwnContentType(c) ==
    IF c.op = "graphql_async" THEN "application/json"
    ELSE "multipart/form-data; boundary=" \o c.boundary

\* the request of the call carries the call's own date and content type and
\* an Authorization header signed over them with the shared credentials
SignedFromOwnValues(c) ==
    /\ HeaderValue(c.request, "Date") = get_date(c.t)
    /\ HeaderValue(c.request, "Content-Type") = OwnContentType(c)
    /\ PathOf(c.request.url) = OwnPath(c)
    /\ SignedMessage(HeaderValue(c.request, "Authorization")) =
            "(request-target): post " \o OwnPath(c) \o "\n"
            \o "host: api.remote.it\n"
            \o "date: " \o get_date(c.t) \o "\n"
            \o "content-type: " \o OwnContentType(c)
    /\ SignedKey(HeaderValue(c.request, "Authorization")) = hmac_Key(Credentials_key(client))

\* C23: under any interleaving of concurrent operations that share the
\* credentials, the request a call sends is signed from its own date,
\* content type, method and path and is not changed afterwards, a step of
\* one call changes no other call, and what a call returns is decided by
\* its own operation and answer.
C23_ConcurrentCallsAreIsolated ==
    [][/\ \A i \in CallIds :
            /\ (calls[i].pc = "started" /\ calls'[i].pc = "sent")
                  => SignedFromOwnValues(calls'[i])
            /\ i \in SentCalls
                  => (i \in SentCalls' /\ calls'[i].request = calls[i].request)
       /\ \A i, j \in CallIds : (i # j /\ calls'[i] # calls[i]) => calls'[j] = calls[j]
       /\ \A i, j \in DoneCalls' :
            (calls'[i].op = calls'[j].op /\ calls'[i].response = calls'[j].response)
                => calls'[i].result = calls'[j].result]_vars

C23_Witness ==
    /\ calls[1].pc = "started"
    /\ calls[1].op = "upload_file_async"
    /\ calls[1].t = 0
    /\ calls[2].pc = "done"
    /\ calls[2].op = "graphql_async"
    /\ calls[2].t = 1
    /\ SignedFromOwnValues(calls[2])

-----------------------------------------------------------------------------
(* Properties of the key a request is signed with, under ClientSpec *)

\* the bytes that the secrets of the clients encode: YmFy is bar, cXV4 is qux
DecodedSecret ==
    [s \in ClientSecrets |-> IF s = "YmFy" THEN <<98, 97, 114>> ELSE <<113, 117, 120>>]

-----------------------------------------------------------------------------
(* Properties of the signature text, under SignerSpec *)

\* the number of bytes a padded base64 text decodes to
DecodedLen(text) == (text.chars \div 4) * 3 - text.padding

\* C25: the signature field of every header build_auth_header returns is
\* standard padded base64 text that decodes to exactly 32 bytes, the
\* HMAC-SHA256 tag of the signing string under the given key.
C25_SignatureIs32Bytes ==
    \A c \in SignerCalls :
        /\ SignatureOf(c.header).chars % 4 = 0
        /\ SignatureOf(c.header).padding \in 0..2
        /\ DecodedLen(SignatureOf(c.header)) = 32
        /\ SignatureOf(c.header).base64 =
              [alg |-> "hmac-sha256", key |-> hmac_Key(c.key),
               data |-> CanonicalString(c), len |-> 32]

C25_Witness ==
    /\ sig_last # NoCall
    /\ sig_last.key = <<113, 117, 120>>
    /\ sig_last.method = "GET"
    /\ SignatureOf(sig_last.header).chars = 44
    /\ SignatureOf(sig_last.header).padding = 1

-----------------------------------------------------------------------------
(* Properties of the file an upload reads, under ClientSpec *)

\* C26: when the local file of a FileUpload, the file at file_path, cannot
\* be opened, upload_file and upload_file_async return UploadFileError::IO
\* and send no request.
C26_MissingFileIsIOBeforeRequest ==
    (outcome.op \in UploadOps /\ outcome.file_upload.file_path \notin DOMAIN Disk)
        => (wire = <<>> /\ Failed("IO"))

-----------------------------------------------------------------------------
(* Further properties of the loaded profiles, under Spec *)

C28_TakeChangesOnlyItsEntry ==
    [][TakeStep =>
          /\ \A n \in DOMAIN profiles \ {taken'.profile_name} :
                n \in DOMAIN profiles' /\ profiles'[n] = profiles[n]
          /\ DOMAIN profiles' \subseteq DOMAIN profiles
          /\ taken'.found # None
                => /\ taken'.found[1] = LoadedSections[taken'.profile_name]
                   /\ taken'.result.ok
                   /\ taken'.result.value.r3_access_key_id =
                          LoadedSections[taken'.profile_name].r3_access_key_id]_vars

C28_Witness ==
    /\ loaded # NotLoaded
    /\ loaded.custom_credentials_path = Some("/etc/r3/two")
    /\ taken # NoTake
    /\ taken.got = {"default", "other"}
    /\ taken.profile_name = "default"
    /\ taken.found = Some(Section("foo", "bar"))
    /\ is_empty(profiles)

\* C29: in every state reached from load_from_disk by take_profile calls,
\* len() is the number of names available_profiles() returns, the names are
\* pairwise distinct, is_empty() holds exactly when len() = 0, and no
\* take_profile makes len() larger.
C29_LenCountsDistinctNames ==
    [][(loaded' # NotLoaded /\ loaded'.ok) =>
          /\ \A names \in available_profiles(profiles') :
                /\ Len(names) = len(profiles')
                /\ \A i, j \in 1..Len(names) : names[i] = names[j] => i = j
          /\ available_profiles(profiles') # {}
          /\ is_empty(profiles') <=> len(profiles') = 0
          /\ TakeStep => len(profiles') <= len(profiles)]_vars

C29_Witness ==
    /\ loaded # NotLoaded
    /\ loaded.ok
    /\ taken # NoTake
    /\ taken.got = {"other"}
    /\ len(profiles) = 1
    /\ ~is_empty(profiles)
    /\ available_profiles(profiles) = {<<"default">>}

-----------------------------------------------------------------------------
(* Blocking and async GraphQL calls, under ClientSpec *)

\* the GraphQL operations offered in both variants
BothVariants ==
    {"get_files", "delete_file", "delete_file_version", "start_job", "cancel_job",
     "get_jobs", "get_application_types", "get_devices"}

\* the two requests have the same URL, the same Date, Content-Type and
\* Authorization headers and the same JSON body
SameRequest(r, s) ==
    /\ r.method = s.method
    /\ r.url = s.url
    /\ \A name \in {"Date", "Content-Type", "Authorization"} :
          /\ HeaderCount(r, name) = 1
          /\ HeaderCount(s, name) = 1
          /\ HeaderValue(r, name) = HeaderValue(s, name)
    /\ Len(r.headers) = Len(s.headers)
    /\ r.body = s.body

\* C30: for every GraphQL operation offered in both variants, the blocking
\* call and its _async counterpart, given the same arguments, credentials
\* and date, build the same query and send the same request: whichever
\* variant was called, the request it sent is the one the other variant
\* sends.
C30_BlockingAndAsyncSendTheSame ==
    [][(OperationStep /\ outcome'.op \in GraphqlOps) =>
          /\ \A op \in BothVariants :
                BlockingOperations(GraphqlArguments)[op] = AsyncOperations(GraphqlArguments)[op]
          /\ DOMAIN BlockingOperations(GraphqlArguments) = BothVariants
          /\ DOMAIN AsyncOperations(GraphqlArguments) = BothVariants
          /\ \A r \in Sent' :
                /\ SameRequest(r, send_remoteit_graphql_request(client, r.body.json, now))
                /\ SameRequest(r, send_remoteit_graphql_request_async(client, r.body.json,
                                                                       now))]_vars

C30_Witness ==
    /\ outcome.op = "graphql_async"
    /\ Len(wire) = 1
    /\ wire[1].body.json = BlockingOperations(GraphqlArguments).delete_file
    /\ now = 1

=============================================================================
